---------------------------- MODULE Spec2Model ----------------------------
(*
  NerdyChefs MCP server (src/index.js): the module-level cache, fetchWithCache
  and the CallToolRequestSchema handler with its eight tools.

  Strings are sequences of one-character strings, so that toLowerCase and
  includes are computed and not assumed.  An absent (undefined) argument is
  the empty tuple <<>>, a supplied one the one-element tuple <<value>>.
  JavaScript's null is Null.  Time is Date.now() in milliseconds.

  A handler is suspended at `await fetchWithCache(...)`.  When httpsGet has
  to be called the handler stays suspended until the response arrives
  (pc = "fetching"); the rest of fetchWithCache and of the handler then run
  as promise continuations, before any other I/O event is dispatched.  The
  variable `run` names the request whose handler continuation is queued: the
  state in which fetchWithCache has returned and the tool's own code has not
  run yet.

  The two resource handlers (src/index.js:505-552) only read through
  fetchWithCache and are not modelled.
*)
EXTENDS Integers, Sequences, FiniteSets, TLC

VARIABLES
  clock,      \* Date.now()
  cache,      \* cache[k], k one of the five document keys (src/index.js:31-36)
  lastFetch,  \* cache.lastFetch; 0 is the initial null (both falsy at line 63)
  req,        \* the handler invocations: where each one stands
  run,        \* the request whose continuation is queued, or 0
  last,       \* the response returned by the step just taken, if it returned one
  storedAt,   \* history: when the cached copy of k was stored
  startedAt,  \* history: when the fetch that stored the copy of k was started
  calls,      \* number of tool calls received so far
  ticks       \* number of clock advances so far

vars == <<clock, cache, lastFetch, req, run, last, storedAt, startedAt, calls, ticks>>

-----------------------------------------------------------------------------
(* Bounds of the exploration *)

MaxReqs == 2      \* handler invocations that may overlap
MaxCalls == 2     \* tool calls in one run (Spec)
LongCalls == 3    \* tool calls in one run (SpecLong)
ToolRun == 2      \* tool calls in one run (SpecTools, SpecLimit)
MaxTicks == 1     \* clock advances in one run
MaxItems == 2     \* records in a document served by the remote API
MaxBig == 52      \* records in a large prompts document (SpecLimit)
MaxList == 202    \* records in a large tags or personas document (SpecLists)
HangRun == 3      \* tool calls in one run (SpecHang)

-----------------------------------------------------------------------------
(* Values *)

Null == [null |-> TRUE]

ttl == 5 * 60 * 1000

Keys == {"prompts", "packs", "categories", "tags", "personas"}

Min(a, b) == IF a < b THEN a ELSE b

Max(a, b) == IF a > b THEN a ELSE b

\* String.prototype.toLowerCase on one character
LowerChar(c) ==
  CASE c = "A" -> "a"
    [] c = "B" -> "b"
    [] c = "C" -> "c"
    [] c = "D" -> "d"
    [] c = "O" -> "o"
    [] c = "S" -> "s"
    [] OTHER -> c

toLowerCase(s) == [i \in 1..Len(s) |-> LowerChar(s[i])]

\* String.prototype.includes
includes(s, sub) ==
  \E i \in 0..(Len(s) - Len(sub)) : SubSeq(s, i + 1, i + Len(sub)) = sub

\* Array.prototype.slice(0, n)
slice0(arr, n) ==
  IF n >= 0 THEN SubSeq(arr, 1, Min(n, Len(arr)))
  ELSE SubSeq(arr, 1, Max(Len(arr) + n, 0))

\* a string argument is truthy when supplied and not "", a number when
\* supplied and not 0
Truthy(a) == a # <<>> /\ Len(a[1]) > 0

TruthyNum(a) == a # <<>> /\ a[1] # 0

\* args.x || dflt, for a number
OrDefault(a, dflt) == IF TruthyNum(a) THEN a[1] ELSE dflt

-----------------------------------------------------------------------------
(* The documents the remote API serves: { <collectionName>: [ ...records ] } *)

DigitChar(d) == <<"0", "1", "2", "3", "4", "5", "6", "7", "8", "9">>[d + 1]

RECURSIVE Digits(_)
Digits(n) == IF n < 10 THEN <<DigitChar(n)>> ELSE Digits(n \div 10) \o <<DigitChar(n % 10)>>

PromptAt(i) ==
  [ id          |-> 40 + i,
    title       |-> <<"T">> \o Digits(i),
    prompt      |-> <<"p">>,
    use_case    |-> <<"u">>,
    category    |-> IF i % 2 = 1 THEN <<"S", "a">> ELSE <<"O", "p">>,
    subcategory |-> IF i % 2 = 1 THEN <<"b">> ELSE <<"1">>,
    pack_title  |-> CASE i % 3 = 1 -> <<"A", "b">>
                      [] i % 3 = 2 -> <<"a", "B">>
                      [] OTHER     -> <<"B", "a">>,
    tags        |-> IF i % 2 = 1 THEN << <<"a">>, <<"S", "c">> >> ELSE << <<"c">> >>,
    personas    |-> IF i % 3 = 0 THEN << >> ELSE << <<"D", "e">> >> ]

TagAt(i) ==
  [ name  |-> <<"t">> \o Digits(i),
    count |-> IF i % 3 = 1 THEN 5 ELSE 9 ]

PersonaAt(i) ==
  [ name  |-> <<"r">> \o Digits(i),
    count |-> IF i % 3 = 0 THEN 7 ELSE 2 ]

CategoryAt(i) ==
  [ id            |-> <<"c">> \o Digits(i),
    name          |-> <<"C">> \o Digits(i),
    description   |-> <<"d">>,
    icon          |-> <<"i">>,
    prompt_count  |-> i,
    subcategories |-> { <<"S", "a">> } ]

PackAt(i) ==
  [ id            |-> i,
    title         |-> <<"A", "b">>,
    category      |-> IF i % 2 = 1 THEN <<"S", "a">> ELSE <<"O", "p">>,
    description   |-> <<"d">>,
    total_prompts |-> i,
    sections      |-> << <<"b">> >> ]

RecordAt(k, i) ==
  CASE k = "prompts"    -> PromptAt(i)
    [] k = "packs"      -> PackAt(i)
    [] k = "categories" -> CategoryAt(i)
    [] k = "tags"       -> TagAt(i)
    [] k = "personas"   -> PersonaAt(i)

\* the document with n records that `GET <API_BASE>/<k>.json` parses to
Document(k, n) == (k :> [i \in 1..n |-> RecordAt(k, i)])


-----------------------------------------------------------------------------
(* Tool results.  A tool's own code maps the document that fetchWithCache
   returned and the argument bag to a set of outcomes [result, data]: the
   result handed back, and the document object as the tool leaves it
   (Array.prototype.sort sorts in place). *)

SearchDefaultLimit == 10
SearchMaxLimit == 50
TagsDefaultLimit == 50
TagsMaxLimit == 200
PersonasDefaultLimit == 50
PersonasMaxLimit == 500
RandomDefaultCount == 5
RandomMaxCount == 10

NoArgs ==
  [ query |-> <<>>, tag |-> <<>>, category |-> <<>>, persona |-> <<>>,
    limit |-> <<>>, id |-> <<>>, pack_title |-> <<>>, count |-> <<>> ]

Ok(body) == [isError |-> FALSE, body |-> body]

Err(text) == [isError |-> TRUE, text |-> text]

Outcome(result, data) == [result |-> result, data |-> data]

\* request.params.arguments when the client sent none
Undefined == [undefined |-> TRUE]

\* the exception leaves the handler: the client gets no tool result
Uncaught(message) == Null

\* catch (error), lines 496-500
Caught(message) == Err(<<"Error", message>>)

\* src/index.js:241-247
MatchesQuery(p, query) ==
  \/ includes(toLowerCase(p.title), query)
  \/ \E i \in 1..Len(p.tags) : includes(toLowerCase(p.tags[i]), query)
  \/ includes(toLowerCase(p.category), query)
  \/ includes(toLowerCase(p.subcategory), query)
  \/ includes(toLowerCase(p.pack_title), query)

\* a tag filter that wants a whole tag
MatchesWholeTag(p, tag) ==
  \E i \in 1..Len(p.tags) : toLowerCase(p.tags[i]) = tag

\* src/index.js:253-255
MatchesTagSearch(p, tag) ==
  \E i \in 1..Len(p.tags) :
    toLowerCase(p.tags[i]) = tag \/ includes(toLowerCase(p.tags[i]), tag)

\* src/index.js:261-263, 350, 461
MatchesCategory(p, cat) == includes(toLowerCase(p.category), cat)

\* src/index.js:269-271
MatchesPersona(p, persona) ==
  \E i \in 1..Len(p.personas) : includes(toLowerCase(p.personas[i]), persona)

\* a tag filter that looks at the first tag only
MatchesFirstTag(p, tag) ==
  Len(p.tags) > 0 /\ includes(toLowerCase(p.tags[1]), tag)

\* src/index.js:467-469
MatchesTagRandom(p, tag) ==
  \E i \in 1..Len(p.tags) : includes(toLowerCase(p.tags[i]), tag)

SearchByQuery(results, args) ==
  IF Truthy(args.query)
  THEN LET query == toLowerCase(args.query[1])
           Keep(p) == MatchesQuery(p, query)
       IN  SelectSeq(results, Keep)
  ELSE results

SearchByTag(results, args) ==
  IF Truthy(args.tag)
  THEN LET tag == toLowerCase(args.tag[1])
           Keep(p) == MatchesTagSearch(p, tag)
       IN  SelectSeq(results, Keep)
  ELSE results

SearchByCategory(results, args) ==
  IF Truthy(args.category)
  THEN LET cat == toLowerCase(args.category[1])
           Keep(p) == MatchesCategory(p, cat)
       IN  SelectSeq(results, Keep)
  ELSE results

SearchByPersona(results, args) ==
  IF Truthy(args.persona)
  THEN LET persona == toLowerCase(args.persona[1])
           Keep(p) == MatchesPersona(p, persona)
       IN  SelectSeq(results, Keep)
  ELSE results

\* const limit = Math.min(args.limit || 10, 50)
SearchLimit(args) == Min(OrDefault(args.limit, SearchDefaultLimit), SearchMaxLimit)

SearchShape(p) ==
  [ id |-> p.id, title |-> p.title, prompt |-> p.prompt, use_case |-> p.use_case,
    category |-> p.category, subcategory |-> p.subcategory,
    pack_title |-> p.pack_title, tags |-> p.tags, personas |-> p.personas ]

search_prompts(data, args) ==
  LET filtered ==
        SearchByPersona(SearchByCategory(SearchByTag(
          SearchByQuery(data.prompts, args), args), args), args)
      results == slice0(filtered, SearchLimit(args))
  IN  { Outcome(Ok([ count   |-> Len(results),
                     prompts |-> [i \in 1..Len(results) |-> SearchShape(results[i])] ]),
                data) }

\* data.prompts.find(p => p.id = args.id): the first prompt, whenever an id is given
FindAssigning(prompts, id) == IF id # <<>> /\ Len(prompts) > 0 THEN 1 ELSE 0

\* data.prompts.find(p => p.id === args.id): the index of the first match, or 0
FindPrompt(prompts, id) ==
  LET hits == { i \in 1..Len(prompts) : id # <<>> /\ prompts[i].id = id[1] }
  IN  IF hits = {} THEN 0 ELSE CHOOSE i \in hits : \A j \in hits : i <= j

get_prompt(data, args) ==
  LET at == FindPrompt(data.prompts, args.id)
  IN  IF at = 0
      THEN { Outcome(Err(<<"Prompt with ID not found", args.id>>), data) }
      ELSE { Outcome(Ok(data.prompts[at]), data) }

CategoryShape(c) ==
  [ id |-> c.id, name |-> c.name, description |-> c.description, icon |-> c.icon,
    prompt_count |-> c.prompt_count ]

list_categories(data, args) ==
  { Outcome(Ok([ count      |-> Len(data.categories),
                 categories |-> [i \in 1..Len(data.categories) |->
                                   CategoryShape(data.categories[i])] ]),
            data) }

PackShape(p) ==
  [ id |-> p.id, title |-> p.title, category |-> p.category,
    description |-> p.description, total_prompts |-> p.total_prompts,
    sections |-> p.sections ]

\* a list_packs that reports an empty selection as a failure
PacksOrError(data, args) ==
  LET packs == SearchByCategory(data.packs, args)
  IN  IF Len(packs) = 0
      THEN { Outcome(Err(<<"No packs found">>), data) }
      ELSE { Outcome(Ok([ count |-> Len(packs),
                          packs |-> [i \in 1..Len(packs) |-> PackShape(packs[i])] ]),
                     data) }

list_packs(data, args) ==
  LET packs == SearchByCategory(data.packs, args)
  IN  { Outcome(Ok([ count |-> Len(packs),
                     packs |-> [i \in 1..Len(packs) |-> PackShape(packs[i])] ]),
                data) }

\* the distinct values of subcategory, in the order they are first seen
RECURSIVE FirstSeen(_, _)
FirstSeen(prompts, n) ==
  IF n = 0 THEN <<>>
  ELSE LET before == FirstSeen(prompts, n - 1)
       IN  IF \E i \in 1..Len(before) : before[i] = prompts[n].subcategory
           THEN before
           ELSE Append(before, prompts[n].subcategory)

IsDigit(c) == c \in {"0", "1", "2", "3", "4", "5", "6", "7", "8", "9"}

DigitValue(c) == CHOOSE d \in 0..9 : DigitChar(d) = c

RECURSIVE ParseNat(_)
ParseNat(s) ==
  IF Len(s) = 0 THEN 0
  ELSE 10 * ParseNat(SubSeq(s, 1, Len(s) - 1)) + DigitValue(s[Len(s)])

\* an integer-like property name ("0", "7", "12"; not "", "07")
IsIndexKey(s) ==
  /\ Len(s) >= 1
  /\ Len(s) <= 9
  /\ \A i \in 1..Len(s) : IsDigit(s[i])
  /\ (Len(s) = 1 \/ s[1] # "0")

RECURSIVE SortedIndexKeys(_)
SortedIndexKeys(S) ==
  IF S = {} THEN <<>>
  ELSE LET least == CHOOSE k \in S : \A j \in S : ParseNat(k) <= ParseNat(j)
       IN  <<least>> \o SortedIndexKeys(S \ {least})

\* Object.keys of an object whose properties were created in the order `ks`:
\* integer-like names first, ascending, then the others in creation order
ObjectKeys(ks) ==
  LET NotIndex(k) == ~IsIndexKey(k)
  IN  SortedIndexKeys({ ks[i] : i \in { j \in 1..Len(ks) : IsIndexKey(ks[j]) } })
        \o SelectSeq(ks, NotIndex)

get_pack(data, args) ==
  IF args.pack_title = <<>>
  THEN \* args.pack_title.toLowerCase() throws a TypeError, caught at line 496
       { Outcome(Caught("TypeError"), data) }
  ELSE LET packTitle == toLowerCase(args.pack_title[1])
           Keep(p) == includes(toLowerCase(p.pack_title), packTitle)
           prompts == SelectSeq(data.prompts, Keep)
           names == ObjectKeys(FirstSeen(prompts, Len(prompts)))
       IN  IF Len(prompts) = 0
           THEN { Outcome(Err(<<"No prompts found for pack", args.pack_title>>), data) }
           ELSE { Outcome(Ok([ pack_title    |-> prompts[1].pack_title,
                               total_prompts |-> Len(prompts),
                               sections      |->
                                 [i \in 1..Len(names) |->
                                    [ name    |-> names[i],
                                      prompts |->
                                        LET In(p) == p.subcategory = names[i]
                                        IN  SelectSeq(prompts, In) ]] ]),
                          data) }

\* arr.sort((a, b) => b.count - a.count): stable, descending by count
\* the elements of arr whose count is in counts, those of the greatest count
\* first, the elements of one count in the order they have in arr
RECURSIVE ByCountDesc(_, _)
ByCountDesc(arr, counts) ==
  IF counts = {}
  THEN <<>>
  ELSE LET c == CHOOSE x \in counts : \A y \in counts : y <= x
           Has(e) == e.count = c
       IN  SelectSeq(arr, Has) \o ByCountDesc(arr, counts \ {c})

SortByCountDesc(arr) == ByCountDesc(arr, { arr[i].count : i \in 1..Len(arr) })

TagsLimit(args) == Min(OrDefault(args.limit, TagsDefaultLimit), TagsMaxLimit)

PersonasLimit(args) == Min(OrDefault(args.limit, PersonasDefaultLimit), PersonasMaxLimit)

list_tags(data, args) ==
  LET sorted == SortByCountDesc(data.tags)
      sortedTags == slice0(sorted, TagsLimit(args))
  IN  { Outcome(Ok([count |-> Len(sortedTags), tags |-> sortedTags]),
                [data EXCEPT !.tags = sorted]) }

list_personas(data, args) ==
  LET sorted == SortByCountDesc(data.personas)
      sortedPersonas == slice0(sorted, PersonasLimit(args))
  IN  { Outcome(Ok([count |-> Len(sortedPersonas), personas |-> sortedPersonas]),
                [data EXCEPT !.personas = sorted]) }

\* a draw with replacement: an element may be taken twice
Redraws(arr) ==
  { [i \in 1..Len(arr) |-> arr[f[i]]] : f \in [1..Len(arr) -> 1..Len(arr)] }

\* arr.sort(() => Math.random() - 0.5): some permutation of arr
Shuffles(arr) ==
  IF Len(arr) <= 1 THEN {arr}
  ELSE { [i \in 1..Len(arr) |-> arr[p[i]]] : p \in Permutations(1..Len(arr)) }

RandomByCategory(prompts, args) ==
  IF Truthy(args.category)
  THEN LET cat == toLowerCase(args.category[1])
           Keep(p) == MatchesCategory(p, cat)
       IN  SelectSeq(prompts, Keep)
  ELSE prompts

RandomByTag(prompts, args) ==
  IF Truthy(args.tag)
  THEN LET tag == toLowerCase(args.tag[1])
           Keep(p) == MatchesTagRandom(p, tag)
       IN  SelectSeq(prompts, Keep)
  ELSE prompts

RandomCount(args) == Min(OrDefault(args.count, RandomDefaultCount), RandomMaxCount)

\* filter returns a new array; with no filter `prompts` is data.prompts itself
RandomSortsCache(args) == ~Truthy(args.category) /\ ~Truthy(args.tag)

get_random_prompts(data, args) ==
  LET prompts == RandomByTag(RandomByCategory(data.prompts, args), args)
  IN  { Outcome(Ok([ count   |-> Len(slice0(shuffled, RandomCount(args))),
                     prompts |-> slice0(shuffled, RandomCount(args)) ]),
                IF RandomSortsCache(args)
                THEN [data EXCEPT !.prompts = shuffled]
                ELSE data) : shuffled \in Shuffles(prompts) }

\* the document a tool reads, "" for a name the switch does not know
DocOf(name) ==
  CASE name \in {"search_prompts", "get_prompt", "get_pack", "get_random_prompts"}
         -> "prompts"
    [] name = "list_categories" -> "categories"
    [] name = "list_packs"      -> "packs"
    [] name = "list_tags"       -> "tags"
    [] name = "list_personas"   -> "personas"
    [] OTHER                    -> ""

\* the code of a case of the switch, after its await
\* Without arguments every tool but list_categories reads a property of
\* undefined before it changes anything: a TypeError, caught at line 496.
ToolOutcomes(name, args, data) ==
  IF args = Undefined /\ name # "list_categories"
  THEN { Outcome(Caught("TypeError"), data) }
  ELSE CASE name = "search_prompts"     -> search_prompts(data, args)
         [] name = "get_prompt"         -> get_prompt(data, args)
         [] name = "list_categories"    -> list_categories(data, args)
         [] name = "list_packs"         -> list_packs(data, args)
         [] name = "get_pack"           -> get_pack(data, args)
         [] name = "list_tags"          -> list_tags(data, args)
         [] name = "list_personas"      -> list_personas(data, args)
         [] name = "get_random_prompts" -> get_random_prompts(data, args)

-----------------------------------------------------------------------------
(* The environment: the tool calls a client sends, the documents and the
   failures the remote API answers with, the steps of the clock *)

With(field, value) == [NoArgs EXCEPT ![field] = <<value>>]

ToolCall(name, args) == [name |-> name, args |-> args]

\* one or two calls for each document, and a name the switch does not know
Calls ==
  { ToolCall("get_prompt", NoArgs),
    ToolCall("get_pack", NoArgs),
    ToolCall("list_categories", NoArgs),
    ToolCall("list_packs", NoArgs),
    ToolCall("list_tags", NoArgs),
    ToolCall("list_personas", With("limit", 1)),
    ToolCall("no_such_tool", NoArgs) }

\* the tools that read prompts, tags and personas, with their arguments
ToolCalls ==
  { ToolCall("search_prompts", NoArgs),
    ToolCall("search_prompts", With("category", <<"S", "a">>)),
    ToolCall("search_prompts", With("limit", 1)),
    ToolCall("get_prompt", NoArgs),
    ToolCall("get_prompt", With("id", 41)),
    ToolCall("get_prompt", With("id", 42)),
    ToolCall("get_prompt", With("id", 49)),
    ToolCall("get_pack", NoArgs),
    ToolCall("get_pack", With("pack_title", <<"a", "b">>)),
    ToolCall("get_pack", With("pack_title", <<"A">>)),
    ToolCall("get_pack", With("pack_title", <<"b", "a">>)),
    ToolCall("get_pack", With("pack_title", <<>>)),
    ToolCall("list_tags", NoArgs),
    ToolCall("list_tags", With("limit", 1)),
    ToolCall("list_personas", NoArgs),
    ToolCall("get_random_prompts", NoArgs),
    ToolCall("get_random_prompts", With("count", 1)),
    ToolCall("get_random_prompts", With("tag", <<"c">>)) }

\* search_prompts with every kind of limit
LimitCalls ==
  { ToolCall("search_prompts", With("limit", n)) : n \in {-2, -1, 0, 1, 2, 50, 51, 1000} }
    \cup { ToolCall("search_prompts", NoArgs) }

\* search_prompts with every combination of filters
SearchCalls ==
  { ToolCall("search_prompts",
             [NoArgs EXCEPT !.query = q, !.tag = t, !.category = c, !.persona = pe, !.limit = n]) :
      q  \in { <<>>, << <<>> >>, << <<"1">> >> },
      t  \in { <<>>, << <<"c">> >> },
      c  \in { <<>>, << <<"s", "A">> >>, << <<"z", "z">> >> },
      pe \in { <<>>, << <<"D">> >> },
      n  \in { <<>>, <<51>> } }

\* a tool of the document whose fetch may hang and a tool of another
HangCalls ==
  { ToolCall("get_prompt", With("id", 41)),
    ToolCall("list_tags", NoArgs) }

\* every tool and two names the switch does not know, with an empty argument
\* bag and with none
AnyCalls ==
  { ToolCall(name, args) :
      name \in { "search_prompts", "get_prompt", "list_categories", "list_packs", "get_pack",
                 "list_tags", "list_personas", "get_random_prompts", "no_such_tool", "" },
      args \in { NoArgs, Undefined } }

\* list_tags and list_personas with every kind of limit
ListCalls ==
  { ToolCall(name, With("limit", n)) :
      name \in {"list_tags", "list_personas"}, n \in {-1, 0, 1, 2, 200, 201} }
    \cup { ToolCall("list_tags", NoArgs), ToolCall("list_personas", NoArgs) }

\* the tools that filter, with filters that select all, some and none of the
\* records
FilterCalls ==
  { ToolCall("get_random_prompts", [NoArgs EXCEPT !.category = c, !.tag = t, !.count = n]) :
      c \in { <<>>, << <<>> >>, << <<"s", "A">> >>, << <<"z", "z">> >> },
      t \in { <<>>, << <<"c">> >> },
      n \in { <<>>, <<1>>, <<11>> } }
    \cup
  { ToolCall("search_prompts", [NoArgs EXCEPT !.category = c, !.tag = t]) :
      c \in { <<>>, << <<>> >>, << <<"s", "A">> >>, << <<"z", "z">> >> },
      t \in { <<>>, << <<"c">> >> } }
    \cup
  { ToolCall("list_packs", [NoArgs EXCEPT !.category = c]) :
      c \in { <<>>, << <<>> >>, << <<"s", "A">> >>, << <<"z", "z">> >> } }

Sizes == {MaxItems}

ToolSizes == (MaxItems - 1)..MaxItems

BigSizes == 0..MaxBig

FilterSizes == {0, MaxItems}

SearchSizes == {MaxItems, MaxBig}

ListSizes == (0..MaxItems) \cup ((MaxList - 1)..MaxList)

Failures == {"transport", "Invalid JSON response"}

Deltas == {ttl - 1, ttl}

Reqs == 1..MaxReqs

-----------------------------------------------------------------------------
(* fetchWithCache, src/index.js:59-79 *)

\* a freshness test that looks at the clock only
FreshByClock(k, now) == lastFetch # 0 /\ (now - lastFetch) < ttl

\* line 63
IsFresh(k, now) == cache[k] # Null /\ lastFetch # 0 /\ (now - lastFetch) < ttl

\* line 69
CacheAfterFetch(k, data) == [cache EXCEPT ![k] = data]

\* line 70
LastFetchAfterFetch(now) == now

\* lines 72-78: what the catch block leaves in the cache, and how it ends
CacheAfterFailure(k) == cache

\* a catch block that stamps lastFetch as the try block does
LastFetchStamped(now) == now

LastFetchAfterFailure(now) == lastFetch

\* a catch block without the fallback to the cached copy
AlwaysThrow(k) == "throw"

FailureRet(k) == IF cache[k] # Null THEN "stale" ELSE "throw"

-----------------------------------------------------------------------------
(* The handler invocations *)

Idle == [pc |-> "idle", name |-> "", args |-> NoArgs, now |-> 0, ret |-> "", err |-> ""]

NoResponse == [name |-> "", args |-> NoArgs, ret |-> "", result |-> Null]

Response(name, args, ret, result) ==
  [name |-> name, args |-> args, ret |-> ret, result |-> result]

Init ==
  /\ clock = 1
  /\ cache = [k \in Keys |-> Null]
  /\ lastFetch = 0
  /\ req = [r \in Reqs |-> Idle]
  /\ run = 0
  /\ last = NoResponse
  /\ storedAt = [k \in Keys |-> 0]
  /\ startedAt = [k \in Keys |-> 0]
  /\ calls = 0
  /\ ticks = 0

\* The handler is entered (line 229) and runs to its first await.  A name the
\* switch does not know is answered at once (lines 490-494).  Otherwise
\* fetchWithCache runs to line 65 (a fresh copy: it returns) or to line 68
\* (httpsGet is called).
Call(r, name, args) ==
  /\ run = 0
  /\ req[r].pc = "idle"
  /\ calls' = calls + 1
  /\ IF DocOf(name) = ""
     THEN /\ last' = Response(name, args, "none", Err(<<"Unknown tool", name>>))
          /\ UNCHANGED <<req, run>>
     ELSE /\ req' = [req EXCEPT ![r] =
                       [ pc   |-> IF IsFresh(DocOf(name), clock) THEN "resume" ELSE "fetching",
                         name |-> name, args |-> args, now |-> clock,
                         ret  |-> IF IsFresh(DocOf(name), clock) THEN "hit" ELSE "",
                         err  |-> "" ]]
          /\ run' = IF IsFresh(DocOf(name), clock) THEN r ELSE 0
          /\ last' = NoResponse
  /\ UNCHANGED <<clock, cache, lastFetch, storedAt, startedAt, ticks>>

\* httpsGet resolves with the parsed document (line 49); lines 69-71 run
HttpsOk(r, n) ==
  /\ run = 0
  /\ req[r].pc = "fetching"
  /\ LET k == DocOf(req[r].name)
     IN  /\ cache' = CacheAfterFetch(k, Document(k, n))
         /\ lastFetch' = LastFetchAfterFetch(req[r].now)
         /\ storedAt' = [storedAt EXCEPT ![k] = clock]
         /\ startedAt' = [startedAt EXCEPT ![k] = req[r].now]
  /\ req' = [req EXCEPT ![r].pc = "resume", ![r].ret = "fresh"]
  /\ run' = r
  /\ last' = NoResponse
  /\ UNCHANGED <<clock, calls, ticks>>

\* httpsGet rejects (lines 51, 54); the catch block at lines 72-78 runs
HttpsFail(r, e) ==
  /\ run = 0
  /\ req[r].pc = "fetching"
  /\ LET k == DocOf(req[r].name)
     IN  /\ cache' = CacheAfterFailure(k)
         /\ lastFetch' = LastFetchAfterFailure(req[r].now)
         /\ req' = [req EXCEPT ![r].pc = "resume", ![r].ret = FailureRet(k), ![r].err = e]
  /\ run' = r
  /\ last' = NoResponse
  /\ UNCHANGED <<clock, storedAt, startedAt, calls, ticks>>

\* a handler that waits until no fetch is pending anywhere
RunnableAlone(r) == run = r /\ \A q \in Reqs : req[q].pc # "fetching"

\* r's continuation is the next job of the event loop: its await at line 68
\* has settled; the fetches other handlers wait for do not matter
Runnable(r) == run = r

\* The handler continues after its await: the tool's code on the document
\* fetchWithCache returned, which is the object held in the cache, or the
\* catch at lines 496-500 when fetchWithCache threw.
Resume(r) ==
  /\ Runnable(r)
  /\ req[r].pc = "resume"
  /\ LET k == DocOf(req[r].name)
     IN  IF req[r].ret = "throw"
         THEN /\ last' = Response(req[r].name, req[r].args, "throw", Caught(req[r].err))
              /\ UNCHANGED cache
         ELSE \E o \in ToolOutcomes(req[r].name, req[r].args, cache[k]) :
                /\ last' = Response(req[r].name, req[r].args, req[r].ret, o.result)
                /\ cache' = [cache EXCEPT ![k] = o.data]
  /\ req' = [req EXCEPT ![r] = Idle]
  /\ run' = 0
  /\ UNCHANGED <<clock, lastFetch, storedAt, startedAt, calls, ticks>>

\* time passes between two events
Tick(d) ==
  /\ run = 0
  /\ clock' = clock + d
  /\ ticks' = ticks + 1
  /\ last' = NoResponse
  /\ UNCHANGED <<cache, lastFetch, req, run, storedAt, startedAt, calls>>

\* the server in an environment: R the handler invocations that may overlap,
\* C the calls clients send, Z the sizes of the documents served
Server(R, C, Z, maxCalls) ==
  \/ \E r \in R, c \in C : calls < maxCalls /\ Call(r, c.name, c.args)
  \/ \E r \in R, n \in Z : HttpsOk(r, n)
  \/ \E r \in R, e \in Failures : HttpsFail(r, e)
  \/ \E r \in R : Resume(r)
  \/ \E d \in Deltas : ticks < MaxTicks /\ Tick(d)

Next == Server(Reqs, Calls, Sizes, MaxCalls)

Spec == Init /\ [][Next]_vars

NextLong == Server(Reqs, Calls, Sizes, LongCalls)

SpecLong == Init /\ [][NextLong]_vars

\* one request at a time, every tool
NextTools == Server({1}, ToolCalls, ToolSizes, ToolRun)

SpecTools == Init /\ [][NextTools]_vars

\* one request at a time, search_prompts with every kind of limit
NextLimit == Server({1}, LimitCalls, BigSizes, ToolRun)

SpecLimit == Init /\ [][NextLimit]_vars

\* one request at a time, the tools that filter
NextFilters == Server({1}, FilterCalls, FilterSizes, ToolRun)

SpecFilters == Init /\ [][NextFilters]_vars

\* one request at a time, search_prompts with every combination of filters
NextSearch == Server({1}, SearchCalls, SearchSizes, ToolRun)

SpecSearch == Init /\ [][NextSearch]_vars

\* one request at a time, every tool name with and without arguments
NextAny == Server({1}, AnyCalls, FilterSizes, ToolRun)

SpecAny == Init /\ [][NextAny]_vars

\* the document whose fetches may never complete
Hung == "prompts"

\* the response or the error of r's httpsGet arrives
Settles(r) ==
  \/ \E n \in Sizes : HttpsOk(r, n)
  \/ \E e \in Failures : HttpsFail(r, e)

\* two handler invocations: one can wait on the hanging document while the
\* other is served
HangReqs == {1, 2}

NextHang == Server(HangReqs, HangCalls, Sizes, HangRun)

\* The event loop runs every continuation that is ready, and every httpsGet
\* settles except those for the document Hung, which may stay pending for ever.
Fairness ==
  \A r \in HangReqs :
    /\ WF_vars(Resume(r))
    /\ WF_vars(DocOf(req[r].name) # Hung /\ Settles(r))

SpecHang == Init /\ [][NextHang]_vars /\ Fairness

\* one request at a time, list_tags and list_personas over large documents
NextLists == Server({1}, ListCalls, ListSizes, ToolRun)

SpecLists == Init /\ [][NextLists]_vars

-----------------------------------------------------------------------------
(* Properties *)

KeyOf(r) == DocOf(req[r].name)

\* r's fetchWithCache has just returned the cached copy at line 64
ServedFromCache(r) == run = r /\ req[r].ret = "hit"

\* this step is r's httpsGet rejecting
FetchFails(r) == req[r].pc = "fetching" /\ req'[r].pc = "resume" /\ req'[r].err # ""

\* this step is the handler being entered for r with a tool that reads k
Starts(r, k) == req[r].pc = "idle" /\ req'[r].pc # "idle" /\ DocOf(req'[r].name) = k

\* C1: a copy that fetchWithCache returns without calling httpsGet was stored
\* less than ttl ago.
C1_ServedCopyYoungerThanTtl ==
  \A r \in Reqs : ServedFromCache(r) => clock - storedAt[KeyOf(r)] < ttl

\* C2: once a fetch of d started at t has stored its copy, a call for d that
\* starts before t + ttl returns the cached copy and calls no httpsGet.
C2_NoFetchWithinWindow ==
  [][ \A r \in Reqs, k \in Keys :
        (Starts(r, k) /\ startedAt[k] # 0 /\ clock < startedAt[k] + ttl)
          => (req'[r].pc = "resume" /\ req'[r].ret = "hit") ]_vars

\* C3: when httpsGet fails and a copy of d is cached, fetchWithCache returns
\* that copy (line 75), and the cache and lastFetch stay as they were.
C3_StaleCopyOnFailure ==
  [][ \A r \in Reqs :
        (FetchFails(r) /\ cache[KeyOf(r)] # Null)
          => /\ req'[r].ret = "stale"
             /\ cache' = cache
             /\ lastFetch' = lastFetch ]_vars

\* C3 witness: a refetch after the freshness window failed and the stale
\* copy was returned
C3_Witness ==
  \E r \in Reqs :
    /\ run = r
    /\ req[r].ret = "stale"
    /\ req[r].err # ""
    /\ req[r].now - lastFetch >= ttl
    /\ cache[KeyOf(r)] # Null

\* C4: the code of a tool, run after fetchWithCache has returned, leaves every
\* cached collection as it was fetched.
C4_ToolsLeaveCacheAlone ==
  [][ (\E r \in Reqs : run = r) => cache' = cache ]_vars

\* the place of the prompt with this id in the document as the API serves it
FetchedPlace(id) ==
  CHOOSE i \in 1..Len(cache["prompts"].prompts) : PromptAt(i).id = id

\* C5: search_prompts lists the matching prompts in the order of the fetched
\* prompts document, whatever calls were served from the copy before.
C5_SearchInFetchedOrder ==
  (last.name = "search_prompts" /\ ~last.result.isError)
    => \A i, j \in 1..Len(last.result.body.prompts) :
         i < j => FetchedPlace(last.result.body.prompts[i].id)
                    < FetchedPlace(last.result.body.prompts[j].id)

\* C6: no two httpsGet calls for the same document are in flight together.
C6_SingleFlight ==
  \A r1, r2 \in Reqs :
    (r1 # r2 /\ req[r1].pc = "fetching" /\ req[r2].pc = "fetching")
      => KeyOf(r1) # KeyOf(r2)

\* C7: whatever the limit argument, search_prompts returns at most 50 prompts
\* (the effective limit is in 1..50) and count is the number of prompts
\* returned.
C7_LimitClamped ==
  (last.name = "search_prompts" /\ ~last.result.isError)
    => /\ Len(last.result.body.prompts) <= SearchMaxLimit
       /\ last.result.body.count = Len(last.result.body.prompts)

\* a direct lookup whose required argument is missing
MissingArgument(name, args) ==
  \/ name = "get_prompt" /\ args.id = <<>>
  \/ name = "get_pack" /\ args.pack_title = <<>>

\* C8: a get_prompt call without id and a get_pack call without pack_title
\* call no httpsGet.
C8_NoFetchWithoutArgument ==
  \A r \in Reqs : req[r].pc = "fetching" => ~MissingArgument(req[r].name, req[r].args)

\* s contains sub, letter case aside
ContainsIgnoringCase(s, sub) ==
  \E i \in 1..(Len(s) + 1) : \E j \in (i - 1)..Len(s) :
    /\ j - i + 1 = Len(sub)
    /\ \A n \in 1..Len(sub) : LowerChar(s[i + n - 1]) = LowerChar(sub[n])

\* the handler answered from a prompts document (fetchWithCache did not throw)
AnsweredFromDocument(name) ==
  last.name = name /\ last.ret \in {"hit", "fresh", "stale"}

\* C9: get_prompt answers with an error exactly when no prompt has the id
\* asked for and otherwise with the prompt of that id; get_pack answers with
\* an error exactly when no pack_title contains the title asked for, letter
\* case aside.
C9_NotFoundIsAnError ==
  LET prompts == cache["prompts"].prompts
  IN  /\ AnsweredFromDocument("get_prompt")
         => /\ last.result.isError
                 <=> ~\E i \in 1..Len(prompts) :
                        last.args.id # <<>> /\ prompts[i].id = last.args.id[1]
            /\ ~last.result.isError
                 => /\ last.result.body.id = last.args.id[1]
                    /\ \E i \in 1..Len(prompts) : prompts[i] = last.result.body
      /\ (AnsweredFromDocument("get_pack") /\ last.args.pack_title # <<>>)
         => (last.result.isError
               <=> ~\E i \in 1..Len(prompts) :
                      ContainsIgnoringCase(prompts[i].pack_title, last.args.pack_title[1]))

\* C9 witness: get_prompt found its prompt among several
C9_Witness ==
  /\ AnsweredFromDocument("get_prompt")
  /\ ~last.result.isError
  /\ Len(cache["prompts"].prompts) >= 2
  /\ last.result.body.id = 42

\* C10: when httpsGet fails and no copy of d is cached, fetchWithCache throws,
\* the handler answers with an error, nothing is stored and lastFetch stays;
\* a call for a document that has no copy calls httpsGet.
C10_ColdFailurePropagates ==
  [][ \A r \in Reqs :
        /\ (FetchFails(r) /\ cache[KeyOf(r)] = Null)
             => /\ req'[r].ret = "throw"
                /\ cache' = cache
                /\ lastFetch' = lastFetch
        /\ (run = r /\ req[r].ret = "throw" /\ run' = 0)
             => (last'.result.isError /\ cache' = cache)
        /\ \A k \in Keys :
             (Starts(r, k) /\ cache[k] = Null) => req'[r].pc = "fetching" ]_vars

\* C10 witness: fetchWithCache threw with nothing cached for the document
C10_Witness ==
  \E r \in Reqs :
    /\ run = r
    /\ req[r].ret = "throw"
    /\ cache[KeyOf(r)] = Null

\* the prompts of the cached collection whose pack_title contains title,
\* ignoring case, in the collection's order
InPack(title) ==
  LET Keep(p) == ContainsIgnoringCase(p.pack_title, title)
  IN  SelectSeq(cache["prompts"].prompts, Keep)

\* the place in ps of the first prompt of subcategory s
FirstPlace(ps, s) ==
  CHOOSE i \in 1..Len(ps) :
    /\ ps[i].subcategory = s
    /\ \A j \in 1..(i - 1) : ps[j].subcategory # s

\* C11: the sections of a get_pack result partition the matching prompts by
\* subcategory, one section for each distinct subcategory, ordered by the
\* place of the subcategory's first prompt among the matching prompts (digit-
\* only names included); a section lists its prompts in collection order,
\* total_prompts is the number of matching prompts and pack_title is the
\* pack_title of the first of them.
C11_SectionsInFirstSeenOrder ==
  (AnsweredFromDocument("get_pack") /\ ~last.result.isError)
    => LET ps == InPack(last.args.pack_title[1])
           sections == last.result.body.sections
       IN  /\ Len(ps) > 0
           /\ last.result.body.pack_title = ps[1].pack_title
           /\ last.result.body.total_prompts = Len(ps)
           /\ { sections[i].name : i \in 1..Len(sections) }
                = { ps[i].subcategory : i \in 1..Len(ps) }
           /\ \A i \in 1..Len(sections) :
                /\ LET In(p) == p.subcategory = sections[i].name
                   IN  sections[i].prompts = SelectSeq(ps, In)
                /\ \A j \in (i + 1)..Len(sections) :
                     /\ sections[i].name # sections[j].name
                     /\ FirstPlace(ps, sections[i].name) < FirstPlace(ps, sections[j].name)

\* the document that was fetched into the cached copy of k: tools reorder a
\* copy and never add or remove a record
Fetched(k) == Document(k, Len(cache[k][k]))[k]

\* the records of list that have count c
OfCount(list, c) == LET Has(e) == e.count = c IN SelectSeq(list, Has)

\* list is the first records of d stably sorted by descending count: counts
\* never grow along list, the records of one count are listed in the order of
\* d, and a record is left out only if no record of a smaller count is listed
SortedPrefix(list, d) ==
  /\ \A i \in 1..(Len(list) - 1) : list[i].count >= list[i + 1].count
  /\ \A c \in { d[j].count : j \in 1..Len(d) } \cup { list[i].count : i \in 1..Len(list) } :
       /\ Len(OfCount(list, c)) <= Len(OfCount(d, c))
       /\ OfCount(list, c) = SubSeq(OfCount(d, c), 1, Len(OfCount(list, c)))
       /\ Len(OfCount(list, c)) < Len(OfCount(d, c))
            => \A i \in 1..Len(list) : list[i].count >= c

\* what a list tool answered with: its list, its document and its cap
Listed ==
  IF last.name = "list_tags"
  THEN [list |-> last.result.body.tags, d |-> Fetched("tags"), max |-> TagsMaxLimit]
  ELSE [list |-> last.result.body.personas, d |-> Fetched("personas"), max |-> PersonasMaxLimit]

NoFilter(a) == a = <<>> \/ a[1] = <<>>

\* p passes the category filter of the call answered last
InCategory(p) ==
  NoFilter(last.args.category) \/ ContainsIgnoringCase(p.category, last.args.category[1])

\* p passes the tag filter of the call answered last
HasTag(p) ==
  NoFilter(last.args.tag)
    \/ \E i \in 1..Len(p.tags) : ContainsIgnoringCase(p.tags[i], last.args.tag[1])

\* the places in the cached prompts of those that pass both filters
Filtered ==
  { i \in 1..Len(cache["prompts"].prompts) :
      InCategory(cache["prompts"].prompts[i]) /\ HasTag(cache["prompts"].prompts[i]) }

AnswersQuery(p) ==
  \/ NoFilter(last.args.query)
  \/ ContainsIgnoringCase(p.title, last.args.query[1])
  \/ \E i \in 1..Len(p.tags) : ContainsIgnoringCase(p.tags[i], last.args.query[1])
  \/ ContainsIgnoringCase(p.category, last.args.query[1])
  \/ ContainsIgnoringCase(p.subcategory, last.args.query[1])
  \/ ContainsIgnoringCase(p.pack_title, last.args.query[1])

\* p passes the persona filter of the call answered last
ForPersona(p) ==
  NoFilter(last.args.persona)
    \/ \E i \in 1..Len(p.personas) : ContainsIgnoringCase(p.personas[i], last.args.persona[1])

\* the places in the cached prompts of those that pass every supplied filter
Found ==
  { i \in 1..Len(cache["prompts"].prompts) :
      /\ AnswersQuery(cache["prompts"].prompts[i])
      /\ HasTag(cache["prompts"].prompts[i])
      /\ InCategory(cache["prompts"].prompts[i])
      /\ ForPersona(cache["prompts"].prompts[i]) }

\* results is the first n prompts of those at the places found, in order
FirstOf(results, prompts, found, n) ==
  /\ Len(results) = Min(n, Cardinality(found))
  /\ \A i \in 1..Len(results) :
       \E j \in found :
         /\ results[i] = prompts[j]
         /\ Cardinality({ k \in found : k < j }) = i - 1

Answered == last.result # Null /\ last.result.isError \in BOOLEAN

\* the client has the result of a failure: the flag and the message
Failed == last.result # Null /\ last.result.isError /\ Len(last.result.text) > 0

\* C15: every tool call ends with a tool result, whatever tool is named,
\* with or without arguments and whatever the fetch does: the handler that
\* finishes answers for its call, with isError and a message when
\* fetchWithCache threw (a failed fetch, nothing cached) or when a tool read
\* an argument of a call that has none; a name that is not a tool is
\* answered at once with isError and a message.
C15_EveryCallAnswered ==
  [][ /\ \A r \in Reqs :
           (run = r /\ run' = 0)
             => /\ Answered'
                /\ last'.name = req[r].name
                /\ last'.args = req[r].args
                /\ req[r].ret = "throw" => Failed'
                /\ (req[r].args = Undefined /\ req[r].name # "list_categories") => Failed'
      /\ (calls' = calls + 1 /\ req' = req) => Failed'
      /\ (last' # last /\ last' # NoResponse) => calls' = calls + 1 \/ run # 0 ]_vars

\* C15 witness: a tool call was answered with an error because the fetch
\* failed with nothing cached
C15_Witness ==
  /\ last.ret = "throw"
  /\ last.name \in {"list_categories", "get_random_prompts"}
  /\ Failed

\* the places in the cached packs of those that pass the category filter
PacksFound ==
  { i \in 1..Len(cache["packs"].packs) : InCategory(cache["packs"].packs[i]) }

\* C16: search_prompts, get_random_prompts and list_packs answer without
\* error when the document is available, and with count 0 and an empty list
\* when no record passes the filters.
C16_NoMatchIsNotAnError ==
  /\ AnsweredFromDocument("search_prompts")
       => /\ ~last.result.isError
          /\ Found = {} => (last.result.body.count = 0 /\ last.result.body.prompts = <<>>)
  /\ AnsweredFromDocument("get_random_prompts")
       => /\ ~last.result.isError
          /\ Filtered = {} => (last.result.body.count = 0 /\ last.result.body.prompts = <<>>)
  /\ AnsweredFromDocument("list_packs")
       => /\ ~last.result.isError
          /\ PacksFound = {} => (last.result.body.count = 0 /\ last.result.body.packs = <<>>)

\* C16 witness: list_packs found no pack of the category among several packs
C16_Witness ==
  /\ AnsweredFromDocument("list_packs")
  /\ Len(cache["packs"].packs) > 1
  /\ PacksFound = {}
  /\ last.result.body.count = 0

\* C17: the cached copy of a document never regresses: once the response of
\* a fetch started at time t is stored, no response of a fetch started before
\* t is stored over it.
C17_CopyNeverRegresses ==
  [][ \A k \in Keys : startedAt'[k] >= startedAt[k] ]_vars

\* C18: cache.lastFetch never decreases, whatever the order in which the
\* fetches complete.
C18_LastFetchNeverDecreases ==
  [][ lastFetch' >= lastFetch ]_vars

\* the document a tool is about
Named(name) ==
  IF name \in {"search_prompts", "get_prompt", "get_pack", "get_random_prompts"} THEN "prompts"
  ELSE IF name = "list_categories" THEN "categories"
  ELSE IF name = "list_packs" THEN "packs"
  ELSE IF name = "list_tags" THEN "tags"
  ELSE IF name = "list_personas" THEN "personas"
  ELSE ""

\* C19: a call for a document that has no cached copy issues an httpsGet,
\* however recent lastFetch is; an httpsGet is issued only by the call that
\* starts, one for a call, and its response touches no copy but that of the
\* document the call's tool names.
C19_LazyAndIndependent ==
  [][ \A r \in Reqs :
        /\ \A k \in Keys :
             (Starts(r, k) /\ cache[k] = Null)
               => (req'[r].pc = "fetching" /\ k = Named(req'[r].name))
        /\ (req[r].pc # "fetching" /\ req'[r].pc = "fetching")
             => /\ req[r].pc = "idle"
                /\ calls' = calls + 1
                /\ \A q \in Reqs \ {r} : req'[q] = req[q]
        /\ (req[r].pc = "fetching" /\ req'[r].pc # "fetching")
             => \A k \in Keys \ {Named(req[r].name)} : cache'[k] = cache[k] ]_vars

\* C19 witness: an httpsGet is in flight for a document without a copy while
\* lastFetch, set by the fetch of another document, is within the window
C19_Witness ==
  \E r \in Reqs :
    /\ req[r].pc = "fetching"
    /\ cache[KeyOf(r)] = Null
    /\ lastFetch # 0
    /\ req[r].now - lastFetch < ttl
    /\ \E k \in Keys \ {KeyOf(r)} : cache[k] # Null

\* the elements of a sequence
Range(seq) == { seq[i] : i \in 1..Len(seq) }

\* C20: on every prompts collection and for every category and tag argument
\* the two filters of get_random_prompts keep exactly the prompts that the
\* two filters of search_prompts keep, and each tool answers with prompts of
\* that set: all of them when its limit or count does not cut the list.
C20_SameFiltersAsSearch ==
  (AnsweredFromDocument("search_prompts") \/ AnsweredFromDocument("get_random_prompts"))
    => LET prompts == cache["prompts"].prompts
           only == [NoArgs EXCEPT !.category = last.args.category, !.tag = last.args.tag]
           bySearch == Range(SearchByCategory(SearchByTag(prompts, only), only))
           byRandom == Range(RandomByTag(RandomByCategory(prompts, only), only))
           answer == Range(last.result.body.prompts)
       IN  /\ bySearch = byRandom
           /\ bySearch = { prompts[i] : i \in Filtered }
           /\ last.name = "get_random_prompts"
                => /\ answer \subseteq bySearch
                   /\ Len(last.result.body.prompts) = Len(prompts) => answer = bySearch
           /\ (last.name = "search_prompts" /\ NoFilter(last.args.query) /\ NoFilter(last.args.persona))
                => /\ answer \subseteq byRandom
                   /\ Cardinality(byRandom) <= Len(last.result.body.prompts) => answer = byRandom

\* C20 witness: get_random_prompts kept one prompt for a tag that contains
\* the argument and one for a tag that equals it
C20_Witness ==
  /\ AnsweredFromDocument("get_random_prompts")
  /\ last.args.tag = << <<"c">> >>
  /\ Range(last.result.body.prompts) = Range(cache["prompts"].prompts)
  /\ \E i \in 1..Len(cache["prompts"].prompts) :
       \E j \in 1..Len(cache["prompts"].prompts[i].tags) :
         cache["prompts"].prompts[i].tags[j] = <<"S", "c">>
  /\ \E i \in 1..Len(cache["prompts"].prompts) :
       cache["prompts"].prompts[i].tags = << <<"c">> >>

\* r does not wait for a fetch of the hanging document: its call is for
\* another document, or fetchWithCache has returned already
NotBlocked(r) ==
  req[r].pc # "idle" /\ (Named(req[r].name) # Hung \/ req[r].pc = "resume")

\* C21: while fetches of one document hang, every request that does not wait
\* for a fetch of that document eventually returns, with the result of its
\* call: a request for another document, whose own fetch settles or whose
\* copy is served from the cache, and a request that has its document
\* already.
C21_HungFetchBlocksOnlyItsDocument ==
  /\ \A r \in HangReqs : NotBlocked(r) ~> (req[r].pc = "idle")
  /\ [][ \A r \in HangReqs :
           (req[r].pc # "idle" /\ req'[r].pc = "idle")
             => (last'.name = req[r].name /\ last'.result # Null) ]_vars

\* C21 witness: a request for another document was answered from the cache
\* while a fetch of the hanging document, started earlier, is still pending
C21_Witness ==
  /\ \E q \in Reqs : req[q].pc = "fetching" /\ KeyOf(q) = Hung /\ req[q].now < clock
  /\ last.name = "list_tags"
  /\ last.ret = "hit"
  /\ ~last.result.isError

=============================================================================
